---- MODULE Spec2Model ----
(***************************************************************************)
(* Model of cronUtils (src/cron-expression-builder.tsx): parseExpression,  *)
(* generateExpression and humanReadable.                                   *)
(*                                                                         *)
(* A JavaScript string is a sequence of one-character strings, so that     *)
(* split, padStart, parseInt, join and template rendering are computed     *)
(* character by character.  A JavaScript number-or-undefined is a record   *)
(* [k, v] with k in {"num", "nan", "undef"}.  An optional field of a       *)
(* CronConfig is <<>> when absent and <<value>> when present.              *)
(*                                                                         *)
(* Spec applies the three functions to drawn arguments.  DemoSpec is the   *)
(* CronBuilderDemo page: builder holds the useState fields of CronBuilder, *)
(* cron the demo's cronExpression, config the config that the last event   *)
(* gave to updateCron (none when it was no edit), parsed the memoized      *)
(* parseExpression(value) and text the sentence CronDisplay shows.         *)
(***************************************************************************)
EXTENDS Integers, Sequences, FiniteSets

VARIABLES pc, config, cron, parsed, text, builder

vars == <<pc, config, cron, parsed, text, builder>>

(***************************************************************************)
(* JavaScript values                                                       *)
(***************************************************************************)
JsNum(n) == [k |-> "num", v |-> n]
JsNaN == [k |-> "nan", v |-> 0]
JsUndef == [k |-> "undef", v |-> 0]

Absent == <<>>
Some(x) == <<x>>

Null == <<>>

DigitChars == <<"0", "1", "2", "3", "4", "5", "6", "7", "8", "9">>

IsDigit(c) == \E i \in 1..10 : DigitChars[i] = c

DigitVal(c) == (CHOOSE i \in 1..10 : DigitChars[i] = c) - 1

\* The white space parseInt skips (the subset of StrWhiteSpaceChar in the inputs).
IsWhiteSpace(c) == c \in {" ", "\t"}

(***************************************************************************)
(* String.prototype.split with a one-character separator: every occurrence *)
(* of the separator ends a token, so n separators give n + 1 tokens, empty *)
(* tokens included.                                                        *)
(***************************************************************************)
RECURSIVE SplitFrom(_, _, _)
SplitFrom(s, sep, tok) ==
    IF s = <<>> THEN <<tok>>
    ELSE IF Head(s) = sep THEN <<tok>> \o SplitFrom(Tail(s), sep, <<>>)
    ELSE SplitFrom(Tail(s), sep, Append(tok, Head(s)))

split(s, sep) == SplitFrom(s, sep, <<>>)

\* padStart left out: the token is copied as it stands.
padStart_NoPad(s, n, c) == s

\* String.prototype.padStart(n, c) with a one-character filler.
RECURSIVE padStart(_, _, _)
padStart(s, n, c) == IF Len(s) >= n THEN s ELSE padStart(<<c>> \o s, n, c)

(***************************************************************************)
(* parseInt(s) with no radix, on decimal input: skip leading white space,  *)
(* take an optional sign, then the longest prefix of digits; NaN when that *)
(* prefix is empty.                                                        *)
(***************************************************************************)
RECURSIVE SkipWhiteSpace(_)
SkipWhiteSpace(s) ==
    IF s # <<>> /\ IsWhiteSpace(Head(s)) THEN SkipWhiteSpace(Tail(s)) ELSE s

RECURSIVE DigitPrefix(_, _)
DigitPrefix(s, acc) ==
    IF s # <<>> /\ IsDigit(Head(s))
    THEN DigitPrefix(Tail(s), acc * 10 + DigitVal(Head(s)))
    ELSE acc

parseInt(s) ==
    LET t == SkipWhiteSpace(s)
        signed == t # <<>> /\ Head(t) \in {"-", "+"}
        u == IF signed THEN Tail(t) ELSE t
    IN  IF u = <<>> \/ ~IsDigit(Head(u)) THEN JsNaN
        ELSE IF signed /\ Head(t) = "-" THEN JsNum(0 - DigitPrefix(u, 0))
        ELSE JsNum(DigitPrefix(u, 0))

\* Number to string, as a template literal or Array.prototype.join renders it.
RECURSIVE NatToString(_)
NatToString(n) ==
    IF n < 10 THEN <<DigitChars[n + 1]>>
    ELSE NatToString(n \div 10) \o <<DigitChars[(n % 10) + 1]>>

toString(x) ==
    CASE x.k = "undef" -> <<"u", "n", "d", "e", "f", "i", "n", "e", "d">>
      [] x.k = "nan" -> <<"N", "a", "N">>
      [] OTHER -> IF x.v < 0 THEN <<"-">> \o NatToString(0 - x.v)
                  ELSE NatToString(x.v)

\* A string-or-undefined inside a template literal.
StringOf(opt) ==
    IF opt = Absent THEN <<"u", "n", "d", "e", "f", "i", "n", "e", "d">>
    ELSE opt[1]

\* Array.prototype.join on an array of strings.
RECURSIVE join(_, _)
join(a, sep) ==
    IF a = <<>> THEN <<>>
    ELSE IF Len(a) = 1 THEN a[1]
    ELSE a[1] \o sep \o join(Tail(a), sep)

\* a.map(t => parseInt(t))
mapParseInt(a) == [i \in 1..Len(a) |-> parseInt(a[i])]

\* a[i] of a JavaScript array, 0-based: undefined outside the array.
At(a, i) == IF i + 1 \in 1..Len(a) THEN a[i + 1] ELSE JsUndef

\* The || operator on a number-or-undefined: undefined, NaN and 0 are falsy.
Truthy(x) == x.k = "num" /\ x.v # 0

(***************************************************************************)
(* CronConfig: type, and the optional time, days, day and expression.      *)
(***************************************************************************)
CronConfig(type, time, days, day, expression) ==
    [type |-> type, time |-> time, days |-> days, day |-> day,
     expression |-> expression]

Star == <<"*">>

DefaultTime == <<"0", "0", ":", "0", "0">>

DefaultExpression == <<"0", " ", "0", " ", "*", " ", "*", " ", "*">>

(***************************************************************************)
(* cronUtils.parseExpression                                               *)
(***************************************************************************)
\* `${hour.padStart(2, '0')}:${minute.padStart(2, '0')}`
formatTime(hour, minute) ==
    padStart(hour, 2, "0") \o <<":">> \o padStart(minute, 2, "0")

\* An array without its repeated elements, first occurrences kept.
RECURSIVE Dedup(_)
Dedup(a) ==
    IF Len(a) = 0 THEN <<>>
    ELSE LET r == Dedup(SubSeq(a, 1, Len(a) - 1)) IN
         IF \E i \in 1..Len(r) : r[i] = a[Len(a)] THEN r
         ELSE Append(r, a[Len(a)])

\* The days de-duplicated while parsing.
parseDays_Dedup(weekday) == Dedup(mapParseInt(split(weekday, ",")))

\* weekday.split(',').map(d => parseInt(d))
parseDays(weekday) == mapParseInt(split(weekday, ","))

\* The maximal runs of characters that are not white space: what
\* cron.trim().split(/\s+/) gives (one empty token for a blank string).
RECURSIVE FieldsFrom(_, _)
FieldsFrom(s, tok) ==
    IF s = <<>> THEN (IF tok = <<>> THEN <<>> ELSE <<tok>>)
    ELSE IF IsWhiteSpace(Head(s))
         THEN (IF tok = <<>> THEN <<>> ELSE <<tok>>) \o FieldsFrom(Tail(s), <<>>)
    ELSE FieldsFrom(Tail(s), Append(tok, Head(s)))

WhiteSpaceFields(s) ==
    IF FieldsFrom(s, <<>>) = <<>> THEN << <<>> >> ELSE FieldsFrom(s, <<>>)

\* The input split on runs of white space instead of on each space.
tokens_OnWhiteSpace(s) == WhiteSpaceFields(s)

\* cron.split(' ')
tokens(s) == split(s, " ")

\* day === '*' left out: a weekly rule that ignores the day-of-month field.
isWeekly_AnyDay(minute, hour, day, month, weekday) ==
    minute # Star /\ hour # Star /\ month = Star /\ weekday # Star

isMidnight(minute, hour, day, month, weekday) ==
    minute = <<"0">> /\ hour = <<"0">> /\ day = Star /\ month = Star
        /\ weekday = Star

isDaily(minute, hour, day, month, weekday) ==
    minute # Star /\ hour # Star /\ day = Star /\ month = Star
        /\ weekday = Star

isWeekly(minute, hour, day, month, weekday) ==
    minute # Star /\ hour # Star /\ day = Star /\ month = Star
        /\ weekday # Star

isMonthly(minute, hour, day, month, weekday) ==
    minute # Star /\ hour # Star /\ day # Star /\ month = Star
        /\ weekday = Star

parseExpression(s) ==
    LET parts == tokens(s) IN
    IF Len(parts) # 5 THEN Null
    ELSE
        LET minute == parts[1]
            hour == parts[2]
            day == parts[3]
            month == parts[4]
            weekday == parts[5]
        IN  IF isMidnight(minute, hour, day, month, weekday)
            THEN Some(CronConfig("daily", Some(DefaultTime), Absent, JsUndef,
                                 Absent))
            ELSE IF isDaily(minute, hour, day, month, weekday)
            THEN Some(CronConfig("daily", Some(formatTime(hour, minute)),
                                 Absent, JsUndef, Absent))
            ELSE IF isWeekly(minute, hour, day, month, weekday)
            THEN Some(CronConfig("weekly", Some(formatTime(hour, minute)),
                                 Some(parseDays(weekday)), JsUndef, Absent))
            ELSE IF isMonthly(minute, hour, day, month, weekday)
            THEN Some(CronConfig("monthly", Some(formatTime(hour, minute)),
                                 Absent, parseInt(day), Absent))
            ELSE Some(CronConfig("custom", Absent, Absent, JsUndef, Some(s)))

(***************************************************************************)
(* cronUtils.generateExpression                                            *)
(***************************************************************************)
\* The two parts taken in the order minute, hour.
timeParts_Swapped(time) ==
    LET p == mapParseInt(split(IF time = Absent \/ time[1] = <<>>
                               THEN DefaultTime ELSE time[1], ":"))
    IN  [i \in 1..Len(p) |-> p[Len(p) + 1 - i]]

\* (time || '00:00').split(':').map(t => parseInt(t))
timeParts(time) ==
    mapParseInt(split(IF time = Absent \/ time[1] = <<>> THEN DefaultTime
                      ELSE time[1], ":"))

\* An array element as join renders it: undefined as the empty string.
ElementString(x) == IF x.k = "undef" THEN <<>> ELSE toString(x)

\* (days || []).join(',')
joinDays(days) ==
    LET a == IF days = Absent THEN <<>> ELSE days[1] IN
    join([i \in 1..Len(a) |-> ElementString(a[i])], <<",">>)

\* ${day | 1}: the bitwise or, which sets the lowest bit of the day.
dayOrDefault_BitOr(day) ==
    IF day.k # "num" THEN <<"1">>
    ELSE IF day.v % 2 = 0 THEN toString(JsNum(day.v + 1))
    ELSE toString(day)

\* ${day || 1}
dayOrDefault(day) == IF Truthy(day) THEN toString(day) ELSE <<"1">>

generateExpression(c) ==
    LET hour == At(timeParts(c.time), 0)
        minute == At(timeParts(c.time), 1)
        head == toString(minute) \o <<" ">> \o toString(hour)
    IN  CASE c.type = "daily" -> head \o <<" ", "*", " ", "*", " ", "*">>
          [] c.type = "weekly" ->
                head \o <<" ", "*", " ", "*", " ">> \o joinDays(c.days)
          [] c.type = "monthly" ->
                head \o <<" ">> \o dayOrDefault(c.day) \o <<" ", "*", " ", "*">>
          [] c.type = "custom" ->
                IF c.expression = Absent \/ c.expression[1] = <<>>
                THEN DefaultExpression
                ELSE c.expression[1]
          [] OTHER -> DefaultExpression

(***************************************************************************)
(* cronUtils.humanReadable                                                 *)
(***************************************************************************)
InvalidCronExpression ==
    <<"I", "n", "v", "a", "l", "i", "d", " ", "c", "r", "o", "n", " ",
      "e", "x", "p", "r", "e", "s", "s", "i", "o", "n">>

InvalidSchedule ==
    <<"I", "n", "v", "a", "l", "i", "d", " ", "s", "c", "h", "e", "d", "u",
      "l", "e">>

dayNames ==
    << <<"S", "u", "n", "d", "a", "y">>,
       <<"M", "o", "n", "d", "a", "y">>,
       <<"T", "u", "e", "s", "d", "a", "y">>,
       <<"W", "e", "d", "n", "e", "s", "d", "a", "y">>,
       <<"T", "h", "u", "r", "s", "d", "a", "y">>,
       <<"F", "r", "i", "d", "a", "y">>,
       <<"S", "a", "t", "u", "r", "d", "a", "y">> >>

\* dayNames[d] as join renders it: undefined (d not an index) as the empty string.
dayName(d) ==
    IF d.k = "num" /\ d.v \in 0..(Len(dayNames) - 1) THEN dayNames[d.v + 1]
    ELSE <<>>

\* The names of the days de-duplicated.
namesOfDays_Dedup(days) ==
    LET a == IF days = Absent THEN <<>> ELSE days[1] IN
    join(Dedup([i \in 1..Len(a) |-> dayName(a[i])]), <<",", " ">>)

\* (config.days || []).map(d => dayNames[d]).join(', ')
namesOfDays(days) ==
    LET a == IF days = Absent THEN <<>> ELSE days[1] IN
    join([i \in 1..Len(a) |-> dayName(a[i])], <<",", " ">>)

\* The English ordinal: st, nd, rd by the last digit, th for 11, 12 and 13.
suffix_English(day) ==
    IF day.k # "num" \/ day.v \in 11..13 THEN <<"t", "h">>
    ELSE IF day.v % 10 = 1 THEN <<"s", "t">>
    ELSE IF day.v % 10 = 2 THEN <<"n", "d">>
    ELSE IF day.v % 10 = 3 THEN <<"r", "d">>
    ELSE <<"t", "h">>

\* config.day === 1 ? 'st' : config.day === 2 ? 'nd' : config.day === 3 ? 'rd' : 'th'
suffix(day) ==
    IF day = JsNum(1) THEN <<"s", "t">>
    ELSE IF day = JsNum(2) THEN <<"n", "d">>
    ELSE IF day = JsNum(3) THEN <<"r", "d">>
    ELSE <<"t", "h">>

\* The rendering of a parsed config (the switch on config.type).
describe(c) ==
    CASE c.type = "daily" ->
            <<"D", "a", "i", "l", "y", " ", "a", "t", " ">> \o StringOf(c.time)
      [] c.type = "weekly" ->
            <<"W", "e", "e", "k", "l", "y", " ", "o", "n", " ">>
                \o namesOfDays(c.days) \o <<" ", "a", "t", " ">>
                \o StringOf(c.time)
      [] c.type = "monthly" ->
            <<"M", "o", "n", "t", "h", "l", "y", " ", "o", "n", " ", "t", "h",
              "e", " ">>
                \o toString(c.day) \o suffix(c.day) \o <<" ", "a", "t", " ">>
                \o StringOf(c.time)
      [] c.type = "custom" ->
            <<"C", "u", "s", "t", "o", "m", ":", " ">> \o StringOf(c.expression)
      [] OTHER -> InvalidSchedule

\* The message of the default branch returned for a parse failure.
humanReadable_WrongMessage(s) ==
    LET c == parseExpression(s) IN
    IF c = Null THEN InvalidSchedule ELSE describe(c[1])

humanReadable(s) ==
    LET c == parseExpression(s) IN
    IF c = Null THEN InvalidCronExpression ELSE describe(c[1])

(***************************************************************************)
(* Inputs.  Configs are the arguments of generateExpression, CronInputs    *)
(* the strings given to parseExpression and humanReadable directly.        *)
(***************************************************************************)
\* Longest days array of a config.
MaxDays == 3

\* Most tokens of an input string that has not five of them.
MaxTokens == 6

TwoDigits(n) == <<DigitChars[(n \div 10) + 1], DigitChars[(n % 10) + 1]>>

\* "HH:MM", zero-padded.
TimeString(h, m) == TwoDigits(h) \o <<":">> \o TwoDigits(m)

ValidTimes == {TimeString(h, m) : h \in 0..23, m \in 0..59}

SampleTimes == {TimeString(h, m) : h \in {0, 9, 10, 23}, m \in {0, 7, 30, 59}}

\* Empty, non-numeric, lacking ':', lacking an hour, and not zero-padded.
MalformedTimes ==
    { <<>>, <<"a", "b", "c">>, <<"a", "b", ":", "c", "d">>, <<"1", "2">>,
      <<":", "3", "0">>, <<"9", ":", "5">> }

DayArrays ==
    UNION {[1..n -> {JsNum(d) : d \in 0..6}] : n \in 0..MaxDays}

\* The demo's initial expression and its examples, and other typed text.
SampleExpressions ==
    { <<>>,
      <<"0", " ", "9", " ", "*", " ", "*", " ", "1", ",", "3", ",", "5">>,
      <<"0", " ", "9", " ", "*", " ", "*", " ", "*">>,
      <<"3", "0", " ", "1", "4", " ", "*", " ", "*", " ", "1", ",", "3", ",", "5">>,
      <<"0", " ", "0", " ", "1", "5", " ", "*", " ", "*">>,
      <<"*", " ", "*", " ", "*", " ", "*", " ", "*">>,
      <<"n", "o", "t", " ", "a", " ", "c", "r", "o", "n">> }

Optional(S) == {Absent} \cup {Some(x) : x \in S}

Configs ==
    {CronConfig("daily", t, Absent, JsUndef, Absent) :
        t \in Optional(ValidTimes \cup MalformedTimes)}
    \cup
    {CronConfig("weekly", t, d, JsUndef, Absent) :
        t \in Optional(SampleTimes \cup MalformedTimes),
        d \in Optional(DayArrays)}
    \cup
    {CronConfig("monthly", t, Absent, d, Absent) :
        t \in Optional(SampleTimes \cup MalformedTimes),
        d \in {JsUndef, JsNaN} \cup {JsNum(n) : n \in 0..31}}
    \cup
    {CronConfig(ty, t, Absent, JsUndef, e) :
        ty \in {"custom", "yearly"},
        t \in Optional(SampleTimes),
        e \in Optional(SampleExpressions)}
    \cup
    \* The configs the editor builds: every field set, whatever the type.
    {CronConfig(ty, Some(t), Some(<<JsNum(1), JsNum(3)>>), JsNum(15),
                Some(DefaultExpression)) :
        ty \in {"daily", "weekly", "monthly", "custom"}, t \in SampleTimes}

MinuteTokens == { <<"*">>, <<"0">>, <<"5">>, <<"3", "0">>, <<"a">>, <<>> }

HourTokens == { <<"*">>, <<"0">>, <<"9">>, <<"1", "4">>, <<"1", "2", "3">> }

DayTokens ==
    { <<"*">>, <<"1">>, <<"2">>, <<"3">>, <<"1", "1">>, <<"1", "5">>,
      <<"2", "2">>, <<"3", "1">>, <<"0", "7">>, <<"x">> }

MonthTokens == { <<"*">>, <<"6">> }

WeekdayTokens ==
    { <<"*">>, <<"0">>, <<"1", ",", "3", ",", "5">>, <<"5", ",", "1">>,
      <<"2", ",", "2">>, <<"7">>, <<"a">>, <<>> }

FewTokens == { <<"*">>, <<"0">>, <<>> }

Separators == { <<" ">>, <<"\t">> }

\* Tokens joined by the given separators, one between each two neighbours.
RECURSIVE Joined(_, _)
Joined(toks, seps) ==
    IF Len(toks) = 1 THEN toks[1]
    ELSE toks[1] \o seps[1] \o Joined(Tail(toks), Tail(seps))

CronInputs ==
    \* five tokens, one space between each two
    {join(<<a, b, c, d, e>>, <<" ">>) :
        a \in MinuteTokens, b \in HourTokens, c \in DayTokens,
        d \in MonthTokens, e \in WeekdayTokens}
    \cup
    \* one to MaxTokens tokens, some of them empty, one space between each two
    UNION {{join(t, <<" ">>) : t \in [1..n -> FewTokens]} : n \in 1..MaxTokens}
    \cup
    \* five tokens separated by single spaces or tabs
    {Joined(t, s) : t \in [1..5 -> {<<"*">>, <<"0">>}],
                    s \in [1..4 -> Separators]}
    \cup SampleExpressions

(***************************************************************************)
(* The functions applied: a config is generated, parsed back and rendered; *)
(* a string is parsed and rendered.                                        *)
(***************************************************************************)
Init ==
    /\ \/ pc = "config" /\ config \in {Some(c) : c \in Configs} /\ cron = <<>>
       \/ pc = "cron" /\ config = Absent /\ cron \in CronInputs
    /\ parsed = Null
    /\ text = <<>>
    /\ builder = Absent

Generate ==
    /\ pc = "config"
    /\ cron' = generateExpression(config[1])
    /\ pc' = "cron"
    /\ UNCHANGED <<config, parsed, text, builder>>

Parse ==
    /\ pc = "cron"
    /\ parsed' = parseExpression(cron)
    /\ pc' = "parsed"
    /\ UNCHANGED <<config, cron, text, builder>>

Humanize ==
    /\ pc = "parsed"
    /\ text' = humanReadable(cron)
    /\ pc' = "done"
    /\ UNCHANGED <<config, cron, parsed, builder>>

Next == Generate \/ Parse \/ Humanize

Spec == Init /\ [][Next]_vars

(***************************************************************************)
(* Round trips: parseExpression(generateExpression(c)).                    *)
(***************************************************************************)
\* The config given, once it has been generated and parsed back.
RoundTripOf(type) ==
    /\ pc \in {"parsed", "done"}
    /\ config # Absent
    /\ config[1].type = type
    /\ config[1].time # Absent
    /\ config[1].time[1] \in ValidTimes

\* C1: for every daily config whose time is a zero-padded "HH:MM" with HH in
\* 00..23 and MM in 00..59, parsing the generated expression gives a non-null
\* config of type daily with the same time string.
C1_DailyRoundTrip ==
    RoundTripOf("daily") =>
        /\ parsed # Null
        /\ parsed[1].type = "daily"
        /\ parsed[1].time = config[1].time

C1_Witness ==
    /\ RoundTripOf("daily")
    /\ config[1].time[1] = <<"0", "9", ":", "0", "5">>
    /\ cron = <<"5", " ", "9", " ", "*", " ", "*", " ", "*">>
    /\ parsed # Null
    /\ parsed[1].time = config[1].time

\* A weekly config with a non-empty days array of integers in 0..6.
HasDays ==
    /\ config[1].days # Absent
    /\ Len(config[1].days[1]) > 0
    /\ \A i \in 1..Len(config[1].days[1]) :
           config[1].days[1][i].k = "num" /\ config[1].days[1][i].v \in 0..6

\* C2: for every weekly config with a valid "HH:MM" time and a non-empty days
\* array of integers in 0..6, in any order and with duplicates, parsing the
\* generated expression gives type weekly, the same time, and the same days
\* element for element in the same order.
C2_WeeklyRoundTrip ==
    (RoundTripOf("weekly") /\ HasDays) =>
        /\ parsed # Null
        /\ parsed[1].type = "weekly"
        /\ parsed[1].time = config[1].time
        /\ parsed[1].days = config[1].days

C2_Witness ==
    /\ RoundTripOf("weekly")
    /\ config[1].days = Some(<<JsNum(5), JsNum(1), JsNum(5)>>)
    /\ parsed # Null
    /\ parsed[1].days = Some(<<JsNum(5), JsNum(1), JsNum(5)>>)

\* C3: for every monthly config with a valid "HH:MM" time and a day in 1..31,
\* parsing the generated expression gives type monthly with the same time and
\* the same day.
C3_MonthlyRoundTrip ==
    (RoundTripOf("monthly") /\ config[1].day.k = "num"
        /\ config[1].day.v \in 1..31) =>
        /\ parsed # Null
        /\ parsed[1].type = "monthly"
        /\ parsed[1].time = config[1].time
        /\ parsed[1].day = config[1].day

C3_Witness ==
    /\ RoundTripOf("monthly")
    /\ config[1].day = JsNum(22)
    /\ config[1].time[1] = <<"2", "3", ":", "5", "9">>
    /\ parsed # Null
    /\ parsed[1].day = JsNum(22)

(***************************************************************************)
(* parseExpression on arbitrary strings.                                   *)
(***************************************************************************)
Parsed == pc \in {"parsed", "done"}

\* The number of space characters (U+0020) of a string.
NumSpaces(s) == Cardinality({i \in 1..Len(s) : s[i] = " "})

\* C4 as stated: parseExpression returns null for every string that does not
\* consist of exactly five white-space-separated fields, and a config for
\* every string of exactly five white-space-separated fields.
C4_NullIffNotFiveWhiteSpaceFields ==
    Parsed => (parsed = Null <=> Len(WhiteSpaceFields(cron)) # 5)

\* C4 amended: parseExpression returns null exactly when the string does not
\* hold exactly four space characters, that is when splitting it on each
\* single space (empty tokens kept, tabs no separators) does not give five
\* tokens; otherwise it returns a config of one of the four types, and it
\* signals failure in no other way.
C4_NullIffNotFourSpaces ==
    Parsed =>
        /\ parsed = Null <=> NumSpaces(cron) # 4
        /\ parsed # Null =>
              parsed[1].type \in {"daily", "weekly", "monthly", "custom"}

\* Five fields separated by tabs or runs of spaces, rejected.
C4_Witness ==
    /\ pc = "parsed"
    /\ parsed = Null
    /\ Len(WhiteSpaceFields(cron)) = 5
    /\ NumSpaces(cron) # 4

\* A token padded with zeros on the left to two characters.
PaddedToTwo(t) ==
    IF Len(t) = 0 THEN <<"0", "0">>
    ELSE IF Len(t) = 1 THEN <<"0", t[1]>>
    ELSE t

\* The config the classification rules give for the five fields of input s.
Classified(s, minute, hour, day, month, weekday) ==
    LET time == Some(PaddedToTwo(hour) \o <<":">> \o PaddedToTwo(minute))
        timed == minute # Star /\ hour # Star
    IN  IF timed /\ day = Star /\ month = Star /\ weekday = Star
        THEN CronConfig("daily", time, Absent, JsUndef, Absent)
        ELSE IF timed /\ day = Star /\ month = Star /\ weekday # Star
        THEN CronConfig("weekly", time,
                        Some([i \in 1..Len(split(weekday, ",")) |->
                                  parseInt(split(weekday, ",")[i])]),
                        JsUndef, Absent)
        ELSE IF timed /\ day # Star /\ month = Star /\ weekday = Star
        THEN CronConfig("monthly", time, Absent, parseInt(day), Absent)
        ELSE CronConfig("custom", Absent, Absent, JsUndef, Some(s))

\* C5: for every five-field input, parseExpression returns the result of the
\* first matching rule: minute and hour not '*' and the rest '*' -> daily;
\* minute and hour not '*', day and month '*', weekday not '*' -> weekly with
\* the weekday field split on ',' in the given order; minute, hour and day
\* not '*', month and weekday '*' -> monthly with the integer of day; anything
\* else -> custom with the input verbatim.  The time is hour and minute, each
\* zero-padded to two characters.
C5_Classification ==
    (Parsed /\ NumSpaces(cron) = 4) =>
        LET f == split(cron, " ") IN
        parsed = Some(Classified(cron, f[1], f[2], f[3], f[4], f[5]))

\* An input with a day-of-month and a day-of-week field, parsed as custom.
C5_Witness ==
    /\ pc = "parsed"
    /\ cron = <<"3", "0", " ", "9", " ", "1", "5", " ", "*", " ", "5", ",", "1">>
    /\ parsed # Null
    /\ parsed[1].type = "custom"
    /\ parsed[1].expression = Some(cron)

(***************************************************************************)
(* generateExpression.                                                     *)
(***************************************************************************)
Generated == pc # "config" /\ config # Absent

AllDigits(t) == Len(t) > 0 /\ \A i \in 1..Len(t) : IsDigit(t[i])

\* A time of the form digits ':' digits.
Recognized(t) ==
    \E i \in 1..Len(t) :
        /\ t[i] = ":"
        /\ AllDigits(SubSeq(t, 1, i - 1))
        /\ AllDigits(SubSeq(t, i + 1, Len(t)))

\* C6 as stated: for every daily, weekly or monthly config whose time is
\* missing or not recognized (empty, lacking ':', not numeric), the minute and
\* hour fields of the generated expression are both 0.
C6_UnrecognizedTimeIsMidnight ==
    (Generated /\ config[1].type \in {"daily", "weekly", "monthly"}
        /\ (config[1].time = Absent \/ ~Recognized(config[1].time[1]))) =>
        /\ Len(split(cron, " ")) >= 2
        /\ split(cron, " ")[1] = <<"0">>
        /\ split(cron, " ")[2] = <<"0">>

\* The value of a string of digits.
RECURSIVE ValueOf(_)
ValueOf(t) ==
    IF Len(t) = 0 THEN 0
    ELSE 10 * ValueOf(SubSeq(t, 1, Len(t) - 1)) + DigitVal(t[Len(t)])

\* A natural number in decimal with no leading zero.
RECURSIVE Decimal(_)
Decimal(n) ==
    IF n < 10 THEN <<DigitChars[n + 1]>>
    ELSE Decimal(n \div 10) \o <<DigitChars[(n % 10) + 1]>>

RECURSIVE CommaSeparated(_)
CommaSeparated(a) ==
    IF Len(a) = 0 THEN <<>>
    ELSE IF Len(a) = 1 THEN Decimal(a[1].v)
    ELSE CommaSeparated(SubSeq(a, 1, Len(a) - 1)) \o <<",">>
             \o Decimal(a[Len(a)].v)

\* The expression the per-kind template gives for config c with a valid time.
Template(c) ==
    LET m == Decimal(ValueOf(SubSeq(c.time[1], 4, 5)))
        h == Decimal(ValueOf(SubSeq(c.time[1], 1, 2)))
    IN  CASE c.type = "daily" -> m \o <<" ">> \o h \o <<" ", "*", " ", "*", " ", "*">>
          [] c.type = "weekly" ->
                m \o <<" ">> \o h \o <<" ", "*", " ", "*", " ">>
                  \o (IF c.days = Absent THEN <<>> ELSE CommaSeparated(c.days[1]))
          [] c.type = "monthly" ->
                m \o <<" ">> \o h \o <<" ">>
                  \o (IF c.day.k = "undef" THEN <<"1">> ELSE Decimal(c.day.v))
                  \o <<" ", "*", " ", "*">>
          [] c.type = "custom" ->
                IF c.expression = Absent THEN DefaultExpression
                ELSE c.expression[1]
          [] OTHER -> DefaultExpression

Rendered == pc = "done"

StartsWith(t, prefix) ==
    Len(t) >= Len(prefix) /\ SubSeq(t, 1, Len(prefix)) = prefix

AtTime(time) == <<" ", "a", "t", " ">> \o time

\* C8: for every input on which parseExpression returns null, humanReadable
\* returns exactly "Invalid cron expression"; for every input on which it
\* returns a config, humanReadable returns another string, one of the daily,
\* weekly, monthly and custom renderings and never "Invalid schedule".
C8_InvalidIffParseFails ==
    Rendered =>
        /\ parsed = Null => text = InvalidCronExpression
        /\ parsed # Null =>
              /\ text # InvalidCronExpression
              /\ text # InvalidSchedule
              /\ \/ StartsWith(text, <<"D", "a", "i", "l", "y", " ", "a", "t", " ">>)
                 \/ StartsWith(text, <<"W", "e", "e", "k", "l", "y", " ", "o", "n", " ">>)
                 \/ StartsWith(text, <<"M", "o", "n", "t", "h", "l", "y", " ", "o", "n", " ",
                                       "t", "h", "e", " ">>)
                 \/ StartsWith(text, <<"C", "u", "s", "t", "o", "m", ":", " ">>)

C8_Witness ==
    /\ Rendered
    /\ cron = <<"n", "o", "t", " ", "a", " ", "c", "r", "o", "n">>
    /\ parsed = Null
    /\ text = InvalidCronExpression

\* st for 1, nd for 2, rd for 3, th for every other day.
Ordinal(d) ==
    CASE d = 1 -> <<"s", "t">>
      [] d = 2 -> <<"n", "d">>
      [] d = 3 -> <<"r", "d">>
      [] OTHER -> <<"t", "h">>

\* C9: for every string that parses as monthly with day d in 1..31 and time t,
\* humanReadable returns "Monthly on the {d}{suffix} at {t}", the suffix being
\* st for 1, nd for 2, rd for 3 and th for every other d, 11..13, 21..23 and
\* 31 included.
C9_MonthlyOrdinal ==
    (Rendered /\ parsed # Null /\ parsed[1].type = "monthly"
        /\ parsed[1].day.k = "num" /\ parsed[1].day.v \in 1..31) =>
        text = <<"M", "o", "n", "t", "h", "l", "y", " ", "o", "n", " ", "t", "h",
                 "e", " ">>
                   \o Decimal(parsed[1].day.v) \o Ordinal(parsed[1].day.v)
                   \o AtTime(parsed[1].time[1])

C9_Witness ==
    /\ Rendered
    /\ parsed # Null
    /\ parsed[1].type = "monthly"
    /\ parsed[1].day = JsNum(22)
    /\ parsed[1].time = Some(<<"0", "9", ":", "3", "0">>)
    /\ text = <<"M", "o", "n", "t", "h", "l", "y", " ", "o", "n", " ", "t", "h",
                "e", " ", "2", "2", "t", "h", " ", "a", "t", " ", "0", "9", ":",
                "3", "0">>

\* The names of the days w, in the order of w, with ", " between them.
RECURSIVE Names(_)
Names(w) ==
    IF Len(w) = 0 THEN <<>>
    ELSE IF Len(w) = 1 THEN dayNames[w[1].v + 1]
    ELSE Names(SubSeq(w, 1, Len(w) - 1)) \o <<",", " ">>
             \o dayNames[w[Len(w)].v + 1]

\* C10: for every string that parses as weekly with days w, each in 0..6, and
\* time t, humanReadable returns "Weekly on {names} at {t}", the names being
\* those of Sunday..Saturday indexed by each element of w and joined by ", "
\* in the order of w, duplicates kept.
C10_WeeklyNames ==
    (Rendered /\ parsed # Null /\ parsed[1].type = "weekly"
        /\ \A i \in 1..Len(parsed[1].days[1]) :
               parsed[1].days[1][i].k = "num"
                   /\ parsed[1].days[1][i].v \in 0..6) =>
        text = <<"W", "e", "e", "k", "l", "y", " ", "o", "n", " ">>
                   \o Names(parsed[1].days[1]) \o AtTime(parsed[1].time[1])

C10_Witness ==
    /\ Rendered
    /\ parsed # Null
    /\ parsed[1].type = "weekly"
    /\ parsed[1].days = Some(<<JsNum(5), JsNum(1), JsNum(5)>>)
    /\ parsed[1].time = Some(<<"2", "3", ":", "0", "0">>)
    /\ text = <<"W", "e", "e", "k", "l", "y", " ", "o", "n", " ",
                "F", "r", "i", "d", "a", "y", ",", " ",
                "M", "o", "n", "d", "a", "y", ",", " ",
                "F", "r", "i", "d", "a", "y",
                " ", "a", "t", " ", "2", "3", ":", "0", "0">>

(***************************************************************************)
(* CronBuilder and CronBuilderDemo.                                        *)
(*                                                                         *)
(* A handler runs to its end in one step: the fields it sets, the config   *)
(* it hands to updateCron, and the demo's setCronExpression that onChange  *)
(* is bound to.  The fields on the page are those of the settled           *)
(* deferredScheduleType, which is scheduleType once the render is done.    *)
(***************************************************************************)
\* useState('0 9 * * 1,3,5')
InitialExpression ==
    <<"0", " ", "9", " ", "*", " ", "*", " ", "1", ",", "3", ",", "5">>

\* The cron strings of the example cards.
examples ==
    { <<"0", " ", "9", " ", "*", " ", "*", " ", "*">>,
      <<"3", "0", " ", "1", "4", " ", "*", " ", "*", " ", "1", ",", "3", ",", "5">>,
      <<"0", " ", "0", " ", "1", "5", " ", "*", " ", "*">> }

\* The five useState initial values, from parseExpression(value) or the
\* daily default.
initialState(value) ==
    LET p == parseExpression(value)
        c == IF p = Null
             THEN CronConfig("daily", Some(DefaultTime), Absent, JsUndef, Absent)
             ELSE p[1]
    IN  [scheduleType |-> c.type,
         time |-> IF c.time = Absent \/ c.time[1] = <<>> THEN DefaultTime
                  ELSE c.time[1],
         selectedDays |-> IF c.days = Absent THEN <<>> ELSE c.days[1],
         monthDay |-> IF Truthy(c.day) THEN c.day ELSE JsNum(1),
         customExpression |->
             IF c.expression = Absent \/ c.expression[1] = <<>>
             THEN DefaultExpression ELSE c.expression[1]]

\* The order of the UTF-16 code units of the characters of a rendered number.
CharRank(c) ==
    CASE c = "-" -> 0
      [] IsDigit(c) -> 1 + DigitVal(c)
      [] c = "N" -> 11
      [] OTHER -> 12

RECURSIVE StringLess(_, _)
StringLess(a, b) ==
    IF b = <<>> THEN FALSE
    ELSE IF a = <<>> THEN TRUE
    ELSE IF Head(a) = Head(b) THEN StringLess(Tail(a), Tail(b))
    ELSE CharRank(Head(a)) < CharRank(Head(b))

\* x put into the sorted array a, after the elements not greater than it.
RECURSIVE Inserted(_, _)
Inserted(a, x) ==
    IF a = <<>> THEN <<x>>
    ELSE IF StringLess(toString(x), toString(Head(a))) THEN <<x>> \o a
    ELSE <<Head(a)>> \o Inserted(Tail(a), x)

\* Array.prototype.sort with no comparator: by the elements' strings.
RECURSIVE sort(_)
sort(a) ==
    IF Len(a) <= 1 THEN a
    ELSE Inserted(sort(SubSeq(a, 1, Len(a) - 1)), a[Len(a)])

\* selectedDays.includes(dayIndex)
includes(a, x) == \E i \in 1..Len(a) : a[i] = x

\* selectedDays.filter(d => d !== dayIndex)
RECURSIVE without(_, _)
without(a, x) ==
    IF a = <<>> THEN <<>>
    ELSE IF Head(a) = x THEN without(Tail(a), x)
    ELSE <<Head(a)>> \o without(Tail(a), x)

\* What the user can enter in the time, day-of-month and expression fields.
TimeValues == { <<>>, TimeString(14, 30) }

MonthDayValues == { <<>>, <<"0">>, <<"3", "1">> }

\* The day buttons clicked, of the seven of dayNames: the three days selected
\* at first and one more.
DayButtons == {0, 1, 3, 5}

ExpressionValues ==
    { <<>>, <<"*", " ", "*", " ", "*", " ", "*", " ", "*">>,
      <<"n", "o", "t", " ", "a", " ", "c", "r", "o", "n">> }

scheduleTypes == {"daily", "weekly", "monthly", "custom"}

\* startTransition(() => onChange(generateExpression(newConfig))), onChange
\* being the demo's setCronExpression; the page then renders the new value.
updateCron(newConfig) ==
    /\ config' = Some(newConfig)
    /\ cron' = generateExpression(newConfig)
    /\ parsed' = parseExpression(generateExpression(newConfig))
    /\ text' = humanReadable(generateExpression(newConfig))
    /\ pc' = "onChange"

Mounted == pc \in {"mounted", "onChange", "example"}

handleTypeChange(newType) ==
    /\ Mounted
    /\ newType # builder.scheduleType
    /\ builder' = [builder EXCEPT !.scheduleType = newType]
    /\ updateCron(CronConfig(newType, Some(builder.time),
                             Some(builder.selectedDays), builder.monthDay,
                             Some(builder.customExpression)))

handleTimeChange(newTime) ==
    /\ Mounted
    /\ builder.scheduleType \in {"daily", "weekly", "monthly"}
    /\ builder' = [builder EXCEPT !.time = newTime]
    /\ updateCron(CronConfig(builder.scheduleType, Some(newTime),
                             Some(builder.selectedDays), builder.monthDay,
                             Absent))

toggleDay(dayIndex) ==
    LET newDays == IF includes(builder.selectedDays, JsNum(dayIndex))
                   THEN without(builder.selectedDays, JsNum(dayIndex))
                   ELSE sort(Append(builder.selectedDays, JsNum(dayIndex)))
    IN  /\ Mounted
        /\ builder.scheduleType = "weekly"
        /\ builder' = [builder EXCEPT !.selectedDays = newDays]
        /\ updateCron(CronConfig(builder.scheduleType, Some(builder.time),
                                 Some(newDays), builder.monthDay, Absent))

handleMonthDayChange(value) ==
    LET newDay == parseInt(value) IN
    /\ Mounted
    /\ builder.scheduleType = "monthly"
    /\ builder' = [builder EXCEPT !.monthDay = newDay]
    /\ updateCron(CronConfig(builder.scheduleType, Some(builder.time),
                             Some(builder.selectedDays), newDay, Absent))

handleCustomExpressionChange(expression) ==
    /\ Mounted
    /\ builder.scheduleType = "custom"
    /\ builder' = [builder EXCEPT !.customExpression = expression]
    /\ updateCron(CronConfig("custom", Absent, Absent, JsUndef,
                             Some(expression)))

\* onClick={() => setCronExpression(cron)} of an example card: the value
\* changes, the useState fields of CronBuilder are left as they are.
exampleClick(example) ==
    /\ Mounted
    /\ cron' = example
    /\ parsed' = parseExpression(example)
    /\ text' = humanReadable(example)
    /\ pc' = "example"
    /\ config' = Absent
    /\ UNCHANGED builder

DemoInit ==
    /\ pc = "mounted"
    /\ cron = InitialExpression
    /\ builder = initialState(InitialExpression)
    /\ config = Absent
    /\ parsed = parseExpression(InitialExpression)
    /\ text = humanReadable(InitialExpression)

DemoNext ==
    \/ \E newType \in scheduleTypes : handleTypeChange(newType)
    \/ \E newTime \in TimeValues : handleTimeChange(newTime)
    \/ \E dayIndex \in DayButtons : toggleDay(dayIndex)
    \/ \E value \in MonthDayValues : handleMonthDayChange(value)
    \/ \E expression \in ExpressionValues :
           handleCustomExpressionChange(expression)
    \/ \E example \in examples : exampleClick(example)

DemoSpec == DemoInit /\ [][DemoNext]_vars

(***************************************************************************)
(* The strings the editor emits, and the fields against the string.        *)
(***************************************************************************)
\* A non-empty integer or comma-separated list of integers.
IntegerList(t) ==
    \A i \in 1..Len(split(t, ",")) : AllDigits(split(t, ",")[i])

\* Five space-separated fields, each '*' or an integer or a list of integers.
ValidCronExpression(s) ==
    /\ Len(split(s, " ")) = 5
    /\ \A i \in 1..5 : split(s, " ")[i] = Star \/ IntegerList(split(s, " ")[i])

\* C11: after any sequence of editor events (type change, time change,
\* toggleDay, month-day change) from a valid initial value, every string passed
\* to onChange while the schedule type is daily, weekly or monthly is a valid
\* cron expression: five space-separated fields, each '*' or a non-empty
\* integer or comma-separated list of integers; the day-of-week field is never
\* empty.
C11_EmittedExpressionIsValid ==
    (pc = "onChange" /\ config[1].type \in {"daily", "weekly", "monthly"}) =>
        ValidCronExpression(cron)

\* The config formed from the fields of the editor.
FieldsConfig ==
    CronConfig(builder.scheduleType, Some(builder.time),
               Some(builder.selectedDays), builder.monthDay,
               Some(builder.customExpression))

\* C12: after any sequence of events of the demo (edits, and clicks on an
\* example card, which set the cron string directly), the fields of the editor
\* agree with the cron string: generateExpression of the config formed from
\* the fields is the string the demo holds.
C12_FieldsAgreeWithExpression ==
    Mounted => generateExpression(FieldsConfig) = cron

====
